---- MODULE Spec2Model ----
(***************************************************************************)
(* Reservation lifecycle of the smart-parking frontend.                    *)
(*                                                                         *)
(* Each component is modelled under its own specification:                 *)
(*   SpecSlots  the basic user's ParkingSlots page (getSlotStatus,         *)
(*              renderParkingSpots and the click handlers of a slot card); *)
(*   SpecAdmin  the AdminReservationsPage (the reservation list, the       *)
(*              optimistic confirm/decline mutations, the status timer and *)
(*              the paginated loader), against a reservation API whose     *)
(*              code is not part of the frontend.                          *)
(*   SpecForm, SpecBooking  the reservation form of the ParkingSlots page  *)
(*              and the API's creation of reservations;                    *)
(*   SpecDashboard  the basic user's Dashboard and its reservation list;   *)
(*   SpecEval   the status evaluation on slots of every shape;             *)
(*   SpecAuth   AuthContext and the route guards;                          *)
(*   SpecCancel the cancel dialog of the ParkingSlots page;                *)
(*   SpecPlate  the vehicle plate field of the reservation form;           *)
(*   SpecTimer  the admin page left to its timer.                          *)
(* Timestamps are integers: instants of the wall clock.                    *)
(***************************************************************************)
EXTENDS Integers, Sequences, FiniteSets

\* Last instant the wall clock reaches; timestamps range over 0..MaxTime.
MaxTime == 2
\* Number of reservations known to the API.
MaxRes == 2

Times == 0..MaxTime
Rids == 1..MaxRes
UserIds == {1, 2}
SlotIds == {1}

\* status union of types/parking.ts and AdminReservationsPage.tsx
Statuses == {"PENDING", "CONFIRMED", "CANCELLED", "COMPLETED", "EXPIRED"}

VARIABLES
    clock,                 \* the wall clock, what `new Date()` returns
    \* ---- ParkingSlots page
    user,                  \* useAuth().user: the viewer's id, 0 for null
    spot,                  \* one element of spotsData.results
    currentTime,           \* useState(new Date()), refreshed by the interval
    selectedSpot,          \* id of the spot held in selectedSpot, 0 for null
    showReservationModal,
    reservationToCancel,   \* reservation id, 0 for null
    showCancelModal,
    \* ---- AdminReservationsPage; the user's Dashboard keeps the same list
    \* ---- (reservationsData, allReservations, isLoadingMore) with the same loader
    srvStatus,             \* the API's status of each reservation
    resEnd,                \* the API's end_time of each reservation
    reservationsData,      \* data of the ['reservations'] query (first page)
    allReservations,
    isLoadingMore,
    runs,                  \* loadAllReservations runs awaiting a page
    confirmPending,        \* id the confirm mutation is in flight for, 0 if idle
    declinePending,        \* id the decline mutation is in flight for, 0 if idle
    \* ---- ParkingSlots page: the reservation form and its dialogs
    startTime,             \* useState<Date | null>(new Date()), NoDate for null
    endTime,
    timeError,
    startTimeError,
    showSuccessModal,
    showMessageModal,
    messageModalType,      \* messageModalData.type
    posted,                \* body of the POST handleReservationSubmit awaits
    response,              \* the API's answer on its way to the page
    store,                 \* the reservations the API holds, by id
    \* ---- the status evaluation applied to given inputs
    evalSpot,              \* a slot as the API may deliver it
    evalTwin,              \* a slot with the same current_reservation
    evalViewer,
    evalNow,
    evalResult,            \* what the evaluation gave
    \* ---- AuthContext
    authUser,              \* `user` of AuthProvider
    token,
    loading,
    localStorage,          \* the items access_token, refresh_token, user
    authOp,                \* the call of AuthProvider that is under way
    authError,             \* message of the error the last call threw
    profilePending,        \* account whose profile update is under way
    \* ---- ParkingSlots page: the cancel mutation and the plate field
    cancelPending,         \* variables of cancelReservation while it runs
    cancelResponse,        \* the API's answer on its way to the page
    refetchRequested,      \* refetchSpots() called and not answered yet
    vehiclePlate,
    plateInput             \* e.target.value of the last change of the field

slotVars == <<user, spot, currentTime, selectedSpot, showReservationModal,
              reservationToCancel, showCancelModal>>
adminVars == <<srvStatus, resEnd, reservationsData, allReservations,
               isLoadingMore, runs, confirmPending, declinePending>>
formVars == <<startTime, endTime, timeError, startTimeError, showSuccessModal,
              showMessageModal, messageModalType, posted, response, store>>
evalVars == <<evalSpot, evalTwin, evalViewer, evalNow, evalResult>>
\* state of the components modelled further down
authVars == <<authUser, token, loading, localStorage, authOp, authError,
              profilePending>>
cancelVars == <<cancelPending, cancelResponse, refetchRequested>>
plateVars == <<vehiclePlate, plateInput>>
pageVars == <<cancelVars, plateVars>>
restVars == <<evalVars, authVars, pageVars>>
otherVars == <<formVars, restVars>>
vars == <<clock, slotVars, adminVars, otherVars>>

(***************************************************************************)
(* ParkingSlots page                                                       *)
(***************************************************************************)

\* `current_reservation` is optional: id 0 stands for its absence.
NoReservation ==
    [id |-> 0, status |-> "NONE", start_time |-> 0, end_time |-> 0, user |-> 0]

CurrentReservations ==
    [id : Rids, status : Statuses, start_time : Times, end_time : Times,
     user : UserIds]

ParkingSpots ==
    [id : SlotIds, is_occupied : BOOLEAN,
     current_reservation : CurrentReservations \cup {NoReservation}]

\* The four shapes getSlotStatus returns; canCancel / reservationId are
\* undefined in all but the first (FALSE / 0 here).
StatusPending(r) ==
    [text |-> "Pending", variant |-> "warning", canCancel |-> TRUE,
     reservationId |-> r.id]
StatusOf(text, variant) ==
    [text |-> text, variant |-> variant, canCancel |-> FALSE,
     reservationId |-> 0]

\* ---- Variants of getSlotStatus, each with one slip; the properties below
\* ---- are re-checked against them.

\* the upcoming test reads end_time and runs before the in-progress test
getSlotStatus_UpcomingFirst(s, viewer, now) ==
    LET r == s.current_reservation
        isWithinTimeFrame == now >= r.start_time /\ now <= r.end_time
    IN  IF r.id # 0 /\ r.status = "PENDING" /\ viewer # 0 /\ r.user = viewer
          THEN StatusPending(r)
        ELSE IF r.id # 0 /\ r.status = "CONFIRMED" /\ now < r.end_time
          THEN StatusOf("Confirmed", "primary")
        ELSE IF r.id # 0 /\ r.status = "CONFIRMED" /\ isWithinTimeFrame
          THEN StatusOf("Occupied", "danger")
        ELSE IF s.is_occupied
          THEN StatusOf("Occupied", "danger")
        ELSE StatusOf("Available", "success")

\* the occupancy flag is read negated
getSlotStatus_FlagNegated(s, viewer, now) ==
    LET r == s.current_reservation
        isWithinTimeFrame == now >= r.start_time /\ now <= r.end_time
    IN  IF r.id # 0 /\ r.status = "PENDING" /\ viewer # 0 /\ r.user = viewer
          THEN StatusPending(r)
        ELSE IF r.id # 0 /\ r.status = "CONFIRMED" /\ isWithinTimeFrame
          THEN StatusOf("Occupied", "danger")
        ELSE IF r.id # 0 /\ r.status = "CONFIRMED" /\ now < r.start_time
          THEN StatusOf("Confirmed", "primary")
        ELSE IF ~s.is_occupied
          THEN StatusOf("Occupied", "danger")
        ELSE StatusOf("Available", "success")

\* the owner's pending reservation loses its cancel handle
getSlotStatus_NoCancelHandle(s, viewer, now) ==
    LET r == s.current_reservation
        isWithinTimeFrame == now >= r.start_time /\ now <= r.end_time
    IN  IF r.id # 0 /\ r.status = "PENDING" /\ viewer # 0 /\ r.user = viewer
          THEN StatusOf("Pending", "warning")
        ELSE IF r.id # 0 /\ r.status = "CONFIRMED" /\ isWithinTimeFrame
          THEN StatusOf("Occupied", "danger")
        ELSE IF r.id # 0 /\ r.status = "CONFIRMED" /\ now < r.start_time
          THEN StatusOf("Confirmed", "primary")
        ELSE IF s.is_occupied
          THEN StatusOf("Occupied", "danger")
        ELSE StatusOf("Available", "success")

\* the upcoming branch is missing
getSlotStatus_NoUpcoming(s, viewer, now) ==
    LET r == s.current_reservation
        isWithinTimeFrame == now >= r.start_time /\ now <= r.end_time
    IN  IF r.id # 0 /\ r.status = "PENDING" /\ viewer # 0 /\ r.user = viewer
          THEN StatusPending(r)
        ELSE IF r.id # 0 /\ r.status = "CONFIRMED" /\ isWithinTimeFrame
          THEN StatusOf("Occupied", "danger")
        ELSE IF s.is_occupied
          THEN StatusOf("Occupied", "danger")
        ELSE StatusOf("Available", "success")

\* the occupancy fallback is missing
getSlotStatus_NoFallback(s, viewer, now) ==
    LET r == s.current_reservation
        isWithinTimeFrame == now >= r.start_time /\ now <= r.end_time
    IN  IF r.id # 0 /\ r.status = "PENDING" /\ viewer # 0 /\ r.user = viewer
          THEN StatusPending(r)
        ELSE IF r.id # 0 /\ r.status = "CONFIRMED" /\ isWithinTimeFrame
          THEN StatusOf("Occupied", "danger")
        ELSE IF r.id # 0 /\ r.status = "CONFIRMED" /\ now < r.start_time
          THEN StatusOf("Confirmed", "primary")
        ELSE StatusOf("Available", "success")

\* the upcoming test compares the wrong way round
getSlotStatus_UpcomingReversed(s, viewer, now) ==
    LET r == s.current_reservation
        isWithinTimeFrame == now >= r.start_time /\ now <= r.end_time
    IN  IF r.id # 0 /\ r.status = "PENDING" /\ viewer # 0 /\ r.user = viewer
          THEN StatusPending(r)
        ELSE IF r.id # 0 /\ r.status = "CONFIRMED" /\ isWithinTimeFrame
          THEN StatusOf("Occupied", "danger")
        ELSE IF r.id # 0 /\ r.status = "CONFIRMED" /\ now > r.start_time
          THEN StatusOf("Confirmed", "primary")
        ELSE IF s.is_occupied
          THEN StatusOf("Occupied", "danger")
        ELSE StatusOf("Available", "success")

\* a slot flagged is_reserved counts as occupied
getSlotStatus_ReservedFlag(s, viewer, now) ==
    LET r == s.current_reservation
        isWithinTimeFrame == now >= r.start_time /\ now <= r.end_time
    IN  IF r.id # 0 /\ r.status = "PENDING" /\ viewer # 0 /\ r.user = viewer
          THEN StatusPending(r)
        ELSE IF r.id # 0 /\ r.status = "CONFIRMED" /\ isWithinTimeFrame
          THEN StatusOf("Occupied", "danger")
        ELSE IF r.id # 0 /\ r.status = "CONFIRMED" /\ now < r.start_time
          THEN StatusOf("Confirmed", "primary")
        ELSE IF s.is_occupied \/ s.is_reserved
          THEN StatusOf("Occupied", "danger")
        ELSE StatusOf("Available", "success")

\* getSlotStatus, with the viewer and the instant it reads made parameters
getSlotStatus(s, viewer, now) ==
    LET r == s.current_reservation
        isWithinTimeFrame == now >= r.start_time /\ now <= r.end_time
    IN  IF r.id # 0 /\ r.status = "PENDING" /\ viewer # 0 /\ r.user = viewer
          THEN StatusPending(r)
        ELSE IF r.id # 0 /\ r.status = "CONFIRMED" /\ isWithinTimeFrame
          THEN StatusOf("Occupied", "danger")
        ELSE IF r.id # 0 /\ r.status = "CONFIRMED" /\ now < r.start_time
          THEN StatusOf("Confirmed", "primary")
        ELSE IF s.is_occupied
          THEN StatusOf("Occupied", "danger")
        ELSE StatusOf("Available", "success")

\* renderParkingSpots: what a slot card offers for a status.
isAvailable(status) == status.variant = "success" /\ status.text = "Available"

cardActions(status) ==
    (IF isAvailable(status) THEN {"RESERVE"} ELSE {})
    \cup (IF status.canCancel THEN {"CANCEL"} ELSE {})

\* The card of `spot` as rendered from the page's state.
slotStatus == getSlotStatus(spot, user, currentTime)
slotActions == cardActions(slotStatus)

InitSlots ==
    /\ user \in UserIds \cup {0}
    /\ spot \in ParkingSpots
    /\ currentTime = clock
    /\ selectedSpot = 0
    /\ showReservationModal = FALSE
    /\ reservationToCancel = 0
    /\ showCancelModal = FALSE

\* setInterval(..., 60000): setCurrentTime(new Date())
CurrentTimeTick ==
    /\ currentTime' = clock
    /\ UNCHANGED <<clock, user, spot, selectedSpot, showReservationModal,
                   reservationToCancel, showCancelModal, adminVars, otherVars>>

\* Card onClick: isAvailable && handleReservation(spot)
handleReservation ==
    /\ isAvailable(slotStatus)
    /\ selectedSpot' = spot.id
    /\ showReservationModal' = TRUE
    /\ UNCHANGED <<clock, user, spot, currentTime, reservationToCancel,
                   showCancelModal, adminVars, otherVars>>

\* Cancel button of the card: handleCancelReservation(status.reservationId)
handleCancelReservation ==
    /\ slotStatus.canCancel
    /\ reservationToCancel' = slotStatus.reservationId
    /\ showCancelModal' = TRUE
    /\ UNCHANGED <<clock, user, spot, currentTime, selectedSpot,
                   showReservationModal, adminVars, otherVars>>

\* Reservation modal onHide / Cancel button
HideReservationModal ==
    /\ showReservationModal
    /\ showReservationModal' = FALSE
    /\ UNCHANGED <<clock, user, spot, currentTime, selectedSpot,
                   reservationToCancel, showCancelModal, adminVars, otherVars>>

\* Cancel modal onHide / "No, Keep It"
HideCancelModal ==
    /\ showCancelModal
    /\ showCancelModal' = FALSE
    /\ UNCHANGED <<clock, user, spot, currentTime, selectedSpot,
                   showReservationModal, reservationToCancel, adminVars, otherVars>>

\* The ['spots', id, currentPage] query delivers the spot anew: the API has
\* changed the occupancy flag or the status of the current reservation, or
\* dropped the current reservation.
RefetchSpots ==
    /\ \E occ \in BOOLEAN, st \in Statuses \cup {"NONE"} :
          LET r == spot.current_reservation
          IN  spot' = [spot EXCEPT
                          !.is_occupied = occ,
                          !.current_reservation =
                              IF st = "NONE" \/ r.id = 0 THEN NoReservation
                              ELSE [r EXCEPT !.status = st]]
    /\ spot' # spot
    /\ UNCHANGED <<clock, user, currentTime, selectedSpot, showReservationModal,
                   reservationToCancel, showCancelModal, adminVars, otherVars>>

\* The query delivers a reservation on a spot that had none.
RefetchSpotsReserved ==
    /\ spot.current_reservation.id = 0
    /\ \E r \in CurrentReservations :
          spot' = [spot EXCEPT !.current_reservation = r]
    /\ UNCHANGED <<clock, user, currentTime, selectedSpot, showReservationModal,
                   reservationToCancel, showCancelModal, adminVars, otherVars>>

\* Time passes.
ClockAdvance ==
    /\ clock < MaxTime
    /\ clock' = clock + 1
    /\ UNCHANGED <<slotVars, adminVars, otherVars>>

(***************************************************************************)
(* Reservation API (its code is not part of the frontend sources)          *)
(***************************************************************************)

\* Reservations per page of GET /api/reservations/.
PageSize == 1

\* The API's record of reservation id, as AdminReservationsPage reads it
\* (status and end_time; the other fields are only displayed).
srvRecord(id) == [id |-> id, status |-> srvStatus[id], end_time |-> resEnd[id]]

\* Page k of the list: {results, next}, next = 0 for null.
Page(k) ==
    LET first == (k - 1) * PageSize + 1
        last == IF k * PageSize < MaxRes THEN k * PageSize ELSE MaxRes
    IN  [loaded |-> TRUE,
         results |-> [i \in 1..(last - first + 1) |-> srvRecord(first + i - 1)],
         next |-> IF last < MaxRes THEN k + 1 ELSE 0]

\* PATCH/PUT {status} on a reservation.
setReservationStatus(st, id, status) == [st EXCEPT ![id] = status]

(***************************************************************************)
(* AdminReservationsPage                                                   *)
(***************************************************************************)

\* loadAllReservations runs that may await a page at the same time.
MaxRuns == 2

\* prev.map(r => r.id === reservationId ? {...r, status} : r)
setStatus(list, id, status) ==
    [i \in DOMAIN list |->
        IF list[i].id = id THEN [list[i] EXCEPT !.status = status] ELSE list[i]]

hasStatus(list, id, status) ==
    \E i \in DOMAIN list : list[i].id = id /\ list[i].status = status

\* The status the list holds for reservation id, "ABSENT" if it holds none.
statusIn(list, id) ==
    IF \E i \in DOMAIN list : list[i].id = id
      THEN (CHOOSE r \in {list[i] : i \in DOMAIN list} : r.id = id).status
      ELSE "ABSENT"

\* ---- Variants of the timer's per-reservation update, each with one slip.

\* anything but a confirmed reservation expires at its end
timerUpdate_ExpiresAll(r, now) ==
    IF r.status # "CONFIRMED" /\ r.end_time <= now
      THEN [r EXCEPT !.status = "EXPIRED"]
    ELSE IF r.status = "CONFIRMED" /\ r.end_time <= now
      THEN [r EXCEPT !.status = "COMPLETED"]
    ELSE r

\* pending reservations are never expired
timerUpdate_NoExpiry(r, now) ==
    IF r.status = "CONFIRMED" /\ r.end_time <= now
      THEN [r EXCEPT !.status = "COMPLETED"]
    ELSE r

\* The body of the status timer's map, `now` being new Date().
timerUpdate(r, now) ==
    IF r.status = "PENDING" /\ r.end_time <= now
      THEN [r EXCEPT !.status = "EXPIRED"]
    ELSE IF r.status = "CONFIRMED" /\ r.end_time <= now
      THEN [r EXCEPT !.status = "COMPLETED"]
    ELSE r

\* getStatusBadge: the text of the badge.
getStatusBadge(r, now) ==
    LET isPastEndTime == r.end_time <= now
    IN  IF r.status = "CONFIRMED" /\ isPastEndTime THEN "COMPLETED"
        ELSE r.status

RemoveAt(seq, i) == SubSeq(seq, 1, i - 1) \o SubSeq(seq, i + 1, Len(seq))

\* The tabs of the page (useState('pending'), set by the sidebar).
Tabs == {"pending", "confirmed", "completed", "cancelled", "expired", "all"}

\* sort((a, b) => created_at(b) - created_at(a)): newest first, equal keys in
\* their order of arrival.  The list does not keep created_at in this model;
\* the API numbers reservations in the order they are created, so id stands
\* for it.
RECURSIVE sortByCreatedAt(_)
sortByCreatedAt(list) ==
    IF list = <<>> THEN <<>>
    ELSE LET newest == CHOOSE i \in DOMAIN list :
                          /\ \A j \in DOMAIN list : list[j].id <= list[i].id
                          /\ \A j \in 1..(i - 1) : list[j].id < list[i].id
         IN  <<list[newest]>> \o sortByCreatedAt(RemoveAt(list, newest))

\* ---- Variant of filterReservationsByStatus with one slip.

\* the confirmed tab does not look at end_time
filterReservationsByStatus_ConfirmedAnyTime(reservations, activeTab, now) ==
    LET keep(r) ==
            CASE activeTab = "pending" -> r.status = "PENDING"
              [] activeTab = "confirmed" -> r.status = "CONFIRMED"
              [] activeTab = "completed" ->
                    \/ r.status = "COMPLETED"
                    \/ r.status = "CONFIRMED" /\ r.end_time <= now
              [] activeTab = "cancelled" -> r.status = "CANCELLED"
              [] activeTab = "expired" -> r.status = "EXPIRED"
              [] OTHER -> TRUE
    IN  sortByCreatedAt(SelectSeq(reservations, keep))

\* filterReservationsByStatus under tab activeTab, `now` being new Date().
filterReservationsByStatus(reservations, activeTab, now) ==
    LET keep(r) ==
            CASE activeTab = "pending" -> r.status = "PENDING"
              [] activeTab = "confirmed" ->
                    r.status = "CONFIRMED" /\ r.end_time > now
              [] activeTab = "completed" ->
                    \/ r.status = "COMPLETED"
                    \/ r.status = "CONFIRMED" /\ r.end_time <= now
              [] activeTab = "cancelled" -> r.status = "CANCELLED"
              [] activeTab = "expired" -> r.status = "EXPIRED"
              [] OTHER -> TRUE
    IN  sortByCreatedAt(SelectSeq(reservations, keep))

\* getReservationStats of the admin dashboard over its own copy of the
\* list, `now` being new Date().  Every instant of the model lies in one
\* day, so `total` counts the confirmed and completed reservations.
getReservationStats(reservations, now) ==
    LET count(keep(_)) == Len(SelectSeq(reservations, keep))
        isPending(r) == r.status = "PENDING"
        isConfirmed(r) == r.status = "CONFIRMED" /\ r.end_time > now
        isCompleted(r) ==
            \/ r.status = "COMPLETED"
            \/ r.status = "CONFIRMED" /\ r.end_time <= now
        isCancelled(r) == r.status = "CANCELLED"
        isExpired(r) == r.status = "EXPIRED"
        isTotal(r) == r.status = "CONFIRMED" \/ r.status = "COMPLETED"
    IN  [total |-> count(isTotal),
         pending |-> count(isPending),
         confirmed |-> count(isConfirmed),
         cancelled |-> count(isCancelled),
         completed |-> count(isCompleted),
         expired |-> count(isExpired)]

\* The tabs of the page under which reservation r is listed.
tabsOf(r, now) ==
    {t \in Tabs \ {"all"} : filterReservationsByStatus(<<r>>, t, now) # <<>>}

\* ---- Variant of the card's buttons with one slip.

\* the buttons stay on every reservation that is not in a final status
reservationCardActions_UntilFinal(reservation) ==
    IF reservation.status \in {"PENDING", "CONFIRMED"}
      THEN {"DECLINE", "CONFIRM"}
    ELSE {}

\* renderReservationCards: the buttons rendered on a reservation's card.
reservationCardActions(reservation) ==
    IF reservation.status = "PENDING" THEN {"DECLINE", "CONFIRM"} ELSE {}

\* The buttons of the card that can be pressed: each is disabled while its
\* mutation is in flight (for whichever reservation).
enabledCardActions(reservation) ==
    reservationCardActions(reservation)
      \ ((IF declinePending # 0 THEN {"DECLINE"} ELSE {})
          \cup (IF confirmPending # 0 THEN {"CONFIRM"} ELSE {}))

\* The reservations the API holds end one after the other: reservation 1 at
\* instant 1, reservation 2 at instant 2, ... (wrapping at MaxTime).
endOf(i) == ((i - 1) % MaxTime) + 1

InitAdmin ==
    /\ srvStatus \in [Rids -> Statuses]
    /\ resEnd = [i \in Rids |-> endOf(i)]
    /\ reservationsData = [loaded |-> FALSE, results |-> <<>>, next |-> 0]
    /\ allReservations = <<>>
    /\ isLoadingMore = FALSE
    /\ runs = <<>>
    /\ confirmPending = 0
    /\ declinePending = 0


\* The ['reservations'] query resolves with the first page; reservationsData
\* changes and the effect runs loadAllReservations up to its first await.
QueryFetch ==
    /\ Page(1) # reservationsData
    /\ reservationsData' = Page(1)
    /\ IF Page(1).next = 0
         THEN /\ isLoadingMore' = FALSE
              /\ allReservations' = Page(1).results
              /\ runs' = runs
         ELSE /\ Len(runs) < MaxRuns
              /\ isLoadingMore' = TRUE
              /\ runs' = Append(runs, [acc |-> Page(1).results,
                                       next |-> Page(1).next])
              /\ allReservations' = allReservations
    /\ UNCHANGED <<clock, slotVars, otherVars, srvStatus, resEnd, confirmPending,
                   declinePending>>

\* ---- Variant of the loader's loop with one slip.

\* the page just fetched replaces the pages gathered before it
PageLoaded_DropsEarlierPages(i) ==
    /\ i \in DOMAIN runs
    /\ LET data == Page(runs[i].next)
           currentReservations == data.results
       IN  IF data.next = 0
             THEN /\ isLoadingMore' = FALSE
                  /\ allReservations' = currentReservations
                  /\ runs' = RemoveAt(runs, i)
             ELSE /\ isLoadingMore' = TRUE
                  /\ allReservations' = allReservations
                  /\ runs' = [runs EXCEPT ![i] = [acc |-> currentReservations,
                                                  next |-> data.next]]
    /\ UNCHANGED <<clock, slotVars, otherVars, srvStatus, resEnd, reservationsData,
                   confirmPending, declinePending>>

\* axios.get(nextUrl) of run i resolves: the loop goes on to its next await or
\* leaves and stores what it gathered.
PageLoaded(i) ==
    /\ i \in DOMAIN runs
    /\ LET data == Page(runs[i].next)
           currentReservations == runs[i].acc \o data.results
       IN  IF data.next = 0
             THEN /\ isLoadingMore' = FALSE
                  /\ allReservations' = currentReservations
                  /\ runs' = RemoveAt(runs, i)
             ELSE /\ isLoadingMore' = TRUE
                  /\ allReservations' = allReservations
                  /\ runs' = [runs EXCEPT ![i] = [acc |-> currentReservations,
                                                  next |-> data.next]]
    /\ UNCHANGED <<clock, slotVars, otherVars, srvStatus, resEnd, reservationsData,
                   confirmPending, declinePending>>

\* axios.get(nextUrl) of run i rejects: break, then store the pages so far.
PageFailed(i) ==
    /\ i \in DOMAIN runs
    /\ isLoadingMore' = FALSE
    /\ allReservations' = runs[i].acc
    /\ runs' = RemoveAt(runs, i)
    /\ UNCHANGED <<clock, slotVars, otherVars, srvStatus, resEnd, reservationsData,
                   confirmPending, declinePending>>

\* setInterval(..., 1000) of the status timer
StatusTimerTick ==
    /\ allReservations' =
          [i \in DOMAIN allReservations |-> timerUpdate(allReservations[i], clock)]
    /\ UNCHANGED <<clock, slotVars, otherVars, srvStatus, resEnd, reservationsData,
                   isLoadingMore, runs, confirmPending, declinePending>>

\* Confirm button of a PENDING card (disabled while confirmMutation.isPending):
\* confirmMutation.mutate(id), whose onMutate marks the reservation CONFIRMED.
ConfirmClick(id) ==
    /\ hasStatus(allReservations, id, "PENDING")
    /\ confirmPending = 0
    /\ allReservations' = setStatus(allReservations, id, "CONFIRMED")
    /\ confirmPending' = id
    /\ UNCHANGED <<clock, slotVars, otherVars, srvStatus, resEnd, reservationsData,
                   isLoadingMore, runs, declinePending>>

\* The PATCH succeeds; onSuccess invalidates the query (a later QueryFetch).
ConfirmSucceeded ==
    /\ confirmPending # 0
    /\ srvStatus' = setReservationStatus(srvStatus, confirmPending, "CONFIRMED")
    /\ confirmPending' = 0
    /\ UNCHANGED <<clock, slotVars, otherVars, resEnd, reservationsData, allReservations,
                   isLoadingMore, runs, declinePending>>

\* ---- Variant of confirmMutation's onError with one slip.

\* the optimistic status is left in the list
ConfirmFailed_NoRollback ==
    /\ confirmPending # 0
    /\ confirmPending' = 0
    /\ UNCHANGED <<clock, slotVars, otherVars, srvStatus, resEnd, reservationsData,
                   allReservations, isLoadingMore, runs, declinePending>>

\* The PATCH fails; onError puts the reservation back to PENDING.
ConfirmFailed ==
    /\ confirmPending # 0
    /\ allReservations' = setStatus(allReservations, confirmPending, "PENDING")
    /\ confirmPending' = 0
    /\ UNCHANGED <<clock, slotVars, otherVars, srvStatus, resEnd, reservationsData,
                   isLoadingMore, runs, declinePending>>

\* Decline button of a PENDING card (disabled while declineMutation.isPending)
DeclineClick(id) ==
    /\ hasStatus(allReservations, id, "PENDING")
    /\ declinePending = 0
    /\ allReservations' = setStatus(allReservations, id, "CANCELLED")
    /\ declinePending' = id
    /\ UNCHANGED <<clock, slotVars, otherVars, srvStatus, resEnd, reservationsData,
                   isLoadingMore, runs, confirmPending>>

DeclineSucceeded ==
    /\ declinePending # 0
    /\ srvStatus' = setReservationStatus(srvStatus, declinePending, "CANCELLED")
    /\ declinePending' = 0
    /\ UNCHANGED <<clock, slotVars, otherVars, resEnd, reservationsData, allReservations,
                   isLoadingMore, runs, confirmPending>>

DeclineFailed ==
    /\ declinePending # 0
    /\ allReservations' = setStatus(allReservations, declinePending, "PENDING")
    /\ declinePending' = 0
    /\ UNCHANGED <<clock, slotVars, otherVars, srvStatus, resEnd, reservationsData,
                   isLoadingMore, runs, confirmPending>>

\* The owner cancels from the ParkingSlots page: cancelReservation's PUT
\* {status: 'CANCELLED'} succeeds. The Cancel button was offered on a
\* reservation fetched as PENDING, which may have been confirmed since.
OwnerCancel(id) ==
    /\ srvStatus[id] \in {"PENDING", "CONFIRMED"}
    /\ srvStatus' = setReservationStatus(srvStatus, id, "CANCELLED")
    /\ UNCHANGED <<clock, slotVars, otherVars, resEnd, reservationsData, allReservations,
                   isLoadingMore, runs, confirmPending, declinePending>>

(***************************************************************************)
(* ParkingSlots page: the reservation form, and the API's creation of      *)
(* reservations (not part of the frontend sources)                         *)
(***************************************************************************)

\* null of Date | null
NoDate == -1
Dates == Times \cup {NoDate}

\* Slots of the location; the page's `spot` is slot 1.
LocationSlots == {1, 2}

NoRequest == [slot |-> 0, start_time |-> 0, end_time |-> 0, user |-> 0]

ActiveStatuses == {"PENDING", "CONFIRMED"}

\* Overlap of the intervals [start_time, end_time) of two reservations.
overlaps(a, b) == a.start_time < b.end_time /\ b.start_time < a.end_time

\* ---- Variants of createReservation, each with one slip.

\* only confirmed reservations block a slot
createReservation_ConfirmedOnly(st, req) ==
    IF req.start_time >= req.end_time
      THEN [outcome |-> "invalid", store |-> st]
    ELSE IF \E i \in DOMAIN st :
               /\ st[i].slot = req.slot
               /\ st[i].status = "CONFIRMED"
               /\ overlaps(st[i], req)
      THEN [outcome |-> "conflict", store |-> st]
    ELSE [outcome |-> "created",
          store |-> Append(st, [id |-> Len(st) + 1, slot |-> req.slot,
                                status |-> "PENDING",
                                start_time |-> req.start_time,
                                end_time |-> req.end_time, user |-> req.user])]

\* createReservation(slotId, interval, plate) -> Reservation | SlotConflict,
\* an atomic check-then-insert: a malformed interval is refused, an interval
\* overlapping a PENDING or CONFIRMED reservation of the slot is a conflict,
\* anything else is stored as PENDING under the next id.
createReservation(st, req) ==
    IF req.start_time >= req.end_time
      THEN [outcome |-> "invalid", store |-> st]
    ELSE IF \E i \in DOMAIN st :
               /\ st[i].slot = req.slot
               /\ st[i].status \in ActiveStatuses
               /\ overlaps(st[i], req)
      THEN [outcome |-> "conflict", store |-> st]
    ELSE [outcome |-> "created",
          store |-> Append(st, [id |-> Len(st) + 1, slot |-> req.slot,
                                status |-> "PENDING",
                                start_time |-> req.start_time,
                                end_time |-> req.end_time, user |-> req.user])]

\* current_reservation of a slot as the spots endpoint serialises it: the
\* slot's PENDING or CONFIRMED reservation that starts first, if any.
currentReservationOf(st, slot) ==
    LET active == {i \in DOMAIN st :
                      st[i].slot = slot /\ st[i].status \in ActiveStatuses}
    IN  IF active = {} THEN NoReservation
        ELSE LET i == CHOOSE k \in active :
                         \A j \in active : st[k].start_time <= st[j].start_time
             IN  [id |-> st[i].id, status |-> st[i].status,
                  start_time |-> st[i].start_time,
                  end_time |-> st[i].end_time, user |-> st[i].user]

\* The Reserve button of the form: disabled={!!timeError || !!startTimeError}
submitEnabled == timeError = "" /\ startTimeError = ""

InitForm ==
    /\ startTime = clock
    /\ endTime = clock
    /\ timeError = ""
    /\ startTimeError = ""
    /\ showSuccessModal = FALSE
    /\ showMessageModal = FALSE
    /\ messageModalType = "success"
    /\ posted = NoRequest
    /\ response = "none"
    /\ store = <<>>

\* DateTimePicker onChange of the start time
handleStartTimeChange(newValue) ==
    /\ showReservationModal
    /\ startTime' = newValue
    /\ startTimeError' =
          IF newValue # NoDate
            THEN (IF newValue <= clock THEN "Start time must be in the future"
                  ELSE "")
          ELSE startTimeError
    /\ timeError' =
          IF newValue # NoDate /\ endTime # NoDate /\ newValue >= endTime
            THEN "End time must be after start time"
          ELSE ""
    /\ UNCHANGED <<clock, slotVars, adminVars, restVars, endTime,
                   showSuccessModal, showMessageModal, messageModalType,
                   posted, response, store>>

\* DateTimePicker onChange of the end time
handleEndTimeChange(newValue) ==
    /\ showReservationModal
    /\ endTime' = newValue
    /\ timeError' =
          IF startTime # NoDate /\ newValue # NoDate /\ startTime >= newValue
            THEN "End time must be after start time"
          ELSE ""
    /\ UNCHANGED <<clock, slotVars, adminVars, restVars, startTime,
                   startTimeError, showSuccessModal, showMessageModal,
                   messageModalType, posted, response, store>>

\* Form onSubmit, up to its await: the POST leaves with the form's values.
\* (A submit with selectedSpot, startTime or endTime null returns at once.)
handleReservationSubmit ==
    /\ showReservationModal
    /\ submitEnabled
    /\ selectedSpot # 0 /\ startTime # NoDate /\ endTime # NoDate
    /\ posted = NoRequest /\ response = "none"
    /\ posted' = [slot |-> selectedSpot, start_time |-> startTime,
                  end_time |-> endTime, user |-> user]
    /\ UNCHANGED <<clock, slotVars, adminVars, restVars, startTime, endTime,
                   timeError, startTimeError, showSuccessModal,
                   showMessageModal, messageModalType, response, store>>

\* The API commits the page's request.
CreateCommitted ==
    /\ posted # NoRequest
    /\ Len(store) < MaxRes \/ createReservation(store, posted).outcome # "created"
    /\ store' = createReservation(store, posted).store
    /\ response' = createReservation(store, posted).outcome
    /\ posted' = NoRequest
    /\ UNCHANGED <<clock, slotVars, adminVars, restVars, startTime, endTime,
                   timeError, startTimeError, showSuccessModal,
                   showMessageModal, messageModalType>>

\* The API commits the request of another user's page.
OtherUserCreates(u, slot, s, e) ==
    /\ u # user
    /\ LET req == [slot |-> slot, start_time |-> s, end_time |-> e, user |-> u]
       IN  /\ createReservation(store, req).outcome = "created"
           /\ Len(store) < MaxRes
           /\ store' = createReservation(store, req).store
    /\ UNCHANGED <<clock, slotVars, adminVars, restVars, startTime, endTime,
                   timeError, startTimeError, showSuccessModal,
                   showMessageModal, messageModalType, posted, response>>

\* An admin confirms, or an admin or the owner cancels, a stored reservation.
StoreStatusChanged(id, status) ==
    /\ id \in DOMAIN store
    /\ \/ store[id].status = "PENDING" /\ status = "CONFIRMED"
       \/ store[id].status \in ActiveStatuses /\ status = "CANCELLED"
    /\ store' = [store EXCEPT ![id].status = status]
    /\ UNCHANGED <<clock, slotVars, adminVars, restVars, startTime, endTime,
                   timeError, startTimeError, showSuccessModal,
                   showMessageModal, messageModalType, posted, response>>

\* response.status === 201 (refetchSpots() is answered by SpotsRefetched)
SubmitSucceeded ==
    /\ response = "created"
    /\ response' = "none"
    /\ showReservationModal' = FALSE
    /\ showSuccessModal' = TRUE
    /\ startTime' = clock
    /\ endTime' = clock
    /\ vehiclePlate' = <<>>
    /\ selectedSpot' = 0
    /\ UNCHANGED <<clock, user, spot, currentTime, reservationToCancel,
                   showCancelModal, adminVars, evalVars, authVars, cancelVars,
                   plateInput, timeError, startTimeError, showMessageModal,
                   messageModalType, posted, store>>

\* The POST is rejected: the catch block writes to the console.
SubmitFailed ==
    /\ response \in {"conflict", "invalid"}
    /\ response' = "none"
    /\ UNCHANGED <<clock, slotVars, adminVars, restVars, startTime, endTime,
                   timeError, startTimeError, showSuccessModal,
                   showMessageModal, messageModalType, posted, store>>

\* Success modal onHide / OK
HideSuccessModal ==
    /\ showSuccessModal
    /\ showSuccessModal' = FALSE
    /\ UNCHANGED <<clock, slotVars, adminVars, restVars, startTime, endTime,
                   timeError, startTimeError, showMessageModal,
                   messageModalType, posted, response, store>>

\* The ['spots'] query delivers the slot as the API holds it now.
SpotsRefetched ==
    /\ spot' = [spot EXCEPT
                   !.current_reservation = currentReservationOf(store, spot.id)]
    /\ spot' # spot
    /\ UNCHANGED <<clock, user, currentTime, selectedSpot, showReservationModal,
                   reservationToCancel, showCancelModal, adminVars, otherVars>>

FormIdle == InitForm

(***************************************************************************)
(* ParkingSlots page: the cancel mutation                                  *)
(***************************************************************************)

\* "Yes, Cancel It" (disabled while cancelReservation.isPending):
\* cancelReservation.mutate(reservationToCancel)
confirmCancel ==
    /\ showCancelModal
    /\ cancelPending = 0
    /\ reservationToCancel # 0
    /\ cancelPending' = reservationToCancel
    /\ UNCHANGED <<clock, slotVars, adminVars, formVars, evalVars, authVars,
                   plateVars, cancelResponse, refetchRequested>>

\* The API commits PUT {status: 'CANCELLED'} on the reservation.
CancelCommitted ==
    /\ cancelPending # 0
    /\ cancelResponse = "none"
    /\ cancelPending \in DOMAIN store
    /\ store' = [store EXCEPT ![cancelPending].status = "CANCELLED"]
    /\ cancelResponse' = "ok"
    /\ UNCHANGED <<clock, slotVars, adminVars, evalVars, authVars, plateVars,
                   startTime, endTime, timeError, startTimeError,
                   showSuccessModal, showMessageModal, messageModalType,
                   posted, response, cancelPending, refetchRequested>>

\* The PUT is refused or gets no answer.
CancelRejected ==
    /\ cancelPending # 0
    /\ cancelResponse = "none"
    /\ cancelResponse' = "error"
    /\ UNCHANGED <<clock, slotVars, adminVars, formVars, evalVars, authVars,
                   plateVars, cancelPending, refetchRequested>>

\* onSuccess of cancelReservation
cancelOnSuccess ==
    /\ cancelResponse = "ok"
    /\ showCancelModal' = FALSE
    /\ reservationToCancel' = 0
    /\ refetchRequested' = TRUE
    /\ messageModalType' = "success"
    /\ showMessageModal' = TRUE
    /\ cancelPending' = 0
    /\ cancelResponse' = "none"
    /\ UNCHANGED <<clock, user, spot, currentTime, selectedSpot,
                   showReservationModal, adminVars, evalVars, authVars,
                   plateVars, startTime, endTime, timeError, startTimeError,
                   showSuccessModal, posted, response, store>>

\* ---- Variant of cancelReservation's onError with one slip.

\* the dialog is closed and the selection dropped as after a success
cancelOnError_ClosesDialog ==
    /\ cancelResponse = "error"
    /\ showCancelModal' = FALSE
    /\ reservationToCancel' = 0
    /\ messageModalType' = "error"
    /\ showMessageModal' = TRUE
    /\ cancelPending' = 0
    /\ cancelResponse' = "none"
    /\ UNCHANGED <<clock, user, spot, currentTime, selectedSpot,
                   showReservationModal, adminVars, evalVars, authVars,
                   plateVars, startTime, endTime, timeError, startTimeError,
                   showSuccessModal, posted, response, store,
                   refetchRequested>>

\* onError of cancelReservation
cancelOnError ==
    /\ cancelResponse = "error"
    /\ messageModalType' = "error"
    /\ showMessageModal' = TRUE
    /\ cancelPending' = 0
    /\ cancelResponse' = "none"
    /\ UNCHANGED <<clock, slotVars, adminVars, evalVars, authVars, plateVars,
                   startTime, endTime, timeError, startTimeError,
                   showSuccessModal, posted, response, store,
                   refetchRequested>>

\* Message modal onHide / OK
HideMessageModal ==
    /\ showMessageModal
    /\ showMessageModal' = FALSE
    /\ UNCHANGED <<clock, slotVars, adminVars, restVars, startTime, endTime,
                   timeError, startTimeError, showSuccessModal,
                   messageModalType, posted, response, store>>

\* The ['spots'] query answers the refetchSpots() of onSuccess.
RefetchAnswered ==
    /\ refetchRequested
    /\ refetchRequested' = FALSE
    /\ spot' = [spot EXCEPT
                   !.current_reservation = currentReservationOf(store, spot.id)]
    /\ UNCHANGED <<clock, user, currentTime, selectedSpot, showReservationModal,
                   reservationToCancel, showCancelModal, adminVars, formVars,
                   evalVars, authVars, plateVars, cancelPending,
                   cancelResponse>>

\* The reservations the page's user holds on slot 1, one after the other.
ownReservations(u) ==
    [i \in Rids |-> [id |-> i, slot |-> 1, status |-> "PENDING",
                     start_time |-> i - 1, end_time |-> i, user |-> u]]

(***************************************************************************)
(* ParkingSlots page: the vehicle plate field                              *)
(***************************************************************************)

\* Longest text typed or pasted in one change of the field.
MaxTyped == 2
\* value.length <= 6
MaxPlateLength == 6

\* Characters a change event may carry: a lower-case letter, a digit and a
\* character that is neither.
Chars == {"a", "7", "-"}
Texts == UNION {[1..n -> Chars] : n \in 1..MaxTyped}

\* What e.target.value may be after one edit of the field, which shows
\* `plate`: text typed or pasted at its end, or its last character deleted.
Inputs(plate) ==
    {plate \o t : t \in Texts}
    \cup (IF plate = <<>> THEN {} ELSE {SubSeq(plate, 1, Len(plate) - 1)})

\* String.prototype.toUpperCase, character by character.
toUpperCase(value) ==
    [i \in DOMAIN value |-> IF value[i] = "a" THEN "A" ELSE value[i]]

\* /^[A-Z0-9]*$/.test(value)
isUpperAlnum(value) == \A i \in DOMAIN value : value[i] \in {"A", "7"}

\* ---- Variant of handleVehiclePlateChange with one slip.

\* a text that is too long is cut instead of being refused
handleVehiclePlateChange_Truncates(input) ==
    /\ plateInput' = input
    /\ LET value == toUpperCase(input)
       IN  vehiclePlate' =
              IF isUpperAlnum(value)
                THEN IF Len(value) <= MaxPlateLength THEN value
                     ELSE SubSeq(value, 1, MaxPlateLength)
              ELSE vehiclePlate
    /\ UNCHANGED <<clock, slotVars, adminVars, formVars, evalVars, authVars,
                   cancelVars>>

\* onChange of the plate field, `input` being e.target.value
handleVehiclePlateChange(input) ==
    /\ plateInput' = input
    /\ LET value == toUpperCase(input)
       IN  vehiclePlate' =
              IF isUpperAlnum(value) /\ Len(value) <= MaxPlateLength
                THEN value
              ELSE vehiclePlate
    /\ UNCHANGED <<clock, slotVars, adminVars, formVars, evalVars, authVars,
                   cancelVars>>

(***************************************************************************)
(* The status evaluation on slots as the API may deliver them              *)
(***************************************************************************)

\* TypeScript does not check what the API sends: a status outside the union
\* may arrive, and so may an interval that does not run forward.
AnyStatuses == Statuses \cup {"UNKNOWN"}

AnyReservations ==
    [id : {1}, status : AnyStatuses, start_time : Times, end_time : Times,
     user : UserIds] \cup {NoReservation}

\* ParkingSpot with the fields getSlotStatus does not read.
AnySpots ==
    [id : {1, 2}, is_occupied : BOOLEAN, is_reserved : BOOLEAN,
     current_reservation : AnyReservations]

NoStats ==
    [total |-> 0, pending |-> 0, confirmed |-> 0, cancelled |-> 0,
     completed |-> 0, expired |-> 0]

NoResult ==
    [ran |-> FALSE, first |-> StatusOf("", ""), twin |-> StatusOf("", ""),
     badge |-> "", tabs |-> {}, stats |-> NoStats]

\* Two slots carrying the same current_reservation, a viewer and an instant.
InitEval ==
    /\ evalSpot \in {s \in AnySpots : s.id = 1}
    /\ evalTwin \in {s \in AnySpots :
                        s.current_reservation = evalSpot.current_reservation}
    /\ evalViewer \in UserIds \cup {0}
    /\ evalNow \in Times
    /\ evalResult = NoResult

\* The page renders both slots; the admin page renders the badge of their
\* reservation and lists it under its tabs, and the admin dashboard counts
\* it.
Evaluate ==
    /\ ~evalResult.ran
    /\ evalResult' =
          [ran |-> TRUE,
           first |-> getSlotStatus(evalSpot, evalViewer, evalNow),
           twin |-> getSlotStatus(evalTwin, evalViewer, evalNow),
           badge |-> IF evalSpot.current_reservation.id # 0
                       THEN getStatusBadge(evalSpot.current_reservation, evalNow)
                     ELSE "",
           tabs |-> IF evalSpot.current_reservation.id # 0
                      THEN tabsOf(evalSpot.current_reservation, evalNow)
                    ELSE {},
           stats |-> IF evalSpot.current_reservation.id # 0
                       THEN getReservationStats(
                               <<evalSpot.current_reservation>>, evalNow)
                     ELSE NoStats]
    /\ UNCHANGED <<clock, slotVars, adminVars, formVars, authVars, pageVars,
                   evalSpot, evalTwin, evalViewer, evalNow>>

EvalIdle ==
    /\ evalSpot = 0
    /\ evalTwin = 0
    /\ evalViewer = 0
    /\ evalNow = 0
    /\ evalResult = NoResult

(***************************************************************************)
(* AuthContext and the route guards                                        *)
(***************************************************************************)

\* The accounts of the authentication API and the user record
\* /api/users/me/ returns for each; a token is written as the id of the
\* account it was issued to.
AccountIds == {1, 2}
NoToken == 0
NoUser == [id |-> 0, role |-> ""]
UserOf(acct) == [id |-> acct, role |-> IF acct = 2 THEN "ADMIN" ELSE "USER"]
Users == {UserOf(a) : a \in AccountIds}

\* What localStorage may hold under 'user': nothing, the JSON of a user,
\* the JSON text null, or text that is no JSON at all.
NoItem == [id |-> 0, role |-> ""]
NullJson == [id |-> 0, role |-> "null"]
NotJson == [id |-> 0, role |-> "corrupt"]
UserItems == Users \cup {NoItem, NullJson, NotJson}

JSONstringify(userData) == userData

JSONparse(item) ==
    IF item = NotJson THEN [threw |-> TRUE, value |-> NoUser]
    ELSE IF item = NullJson THEN [threw |-> FALSE, value |-> NoUser]
    ELSE [threw |-> FALSE, value |-> item]

EmptyStorage ==
    [access_token |-> NoToken, refresh_token |-> NoToken, user |-> NoItem]

Storages ==
    [access_token : AccountIds \cup {NoToken},
     refresh_token : AccountIds \cup {NoToken},
     user : UserItems]

\* HTTP status of a reply; 0 stands for a request that got no reply.
Replies == {200, 400, 401, 403, 0}

NoCall ==
    [pc |-> "init", acct |-> 0, isAdmin |-> FALSE, nested |-> FALSE,
     status |-> 200]

isAuthenticated == token # NoToken
isAdmin == authUser.role = "ADMIN"

\* ---- Variant of AdminRoute with one slip.
AdminRoute_NoRoleCheck ==
    IF loading THEN "spinner"
    ELSE IF authUser = NoUser THEN "navigate"
    ELSE "children"

AdminRoute ==
    IF loading THEN "spinner"
    ELSE IF authUser = NoUser \/ ~isAdmin THEN "navigate"
    ELSE "children"

PrivateRoute ==
    IF loading THEN "spinner"
    ELSE IF authUser = NoUser THEN "navigate"
    ELSE "children"

\* AuthProvider mounts: on the first load of the application and on every
\* reload of the page, which drops whatever call was under way.
InitAuth ==
    /\ authUser = NoUser
    /\ token = NoToken
    /\ loading = TRUE
    /\ localStorage \in Storages
    /\ authOp = NoCall
    /\ authError = ""
    /\ profilePending = 0

AuthProviderMount ==
    /\ authUser' = NoUser
    /\ token' = NoToken
    /\ loading' = TRUE
    /\ authOp' = NoCall
    /\ authError' = ""
    /\ profilePending' = 0
    /\ UNCHANGED <<clock, slotVars, adminVars, formVars, evalVars, pageVars,
                   localStorage>>

initializeAuth ==
    /\ authOp.pc = "init"
    /\ LET storedToken == localStorage.access_token
           storedUser == localStorage.user
           parsed == JSONparse(storedUser)
       IN  IF storedToken # NoToken /\ storedUser # NoItem
             THEN IF parsed.threw
                    THEN /\ localStorage' = EmptyStorage
                         /\ token' = NoToken
                         /\ authUser' = NoUser
                  ELSE /\ token' = storedToken
                       /\ authUser' = parsed.value
                       /\ UNCHANGED localStorage
           ELSE /\ token' = NoToken
                /\ authUser' = NoUser
                /\ UNCHANGED localStorage
    /\ loading' = FALSE
    /\ authOp' = [authOp EXCEPT !.pc = "idle"]
    /\ UNCHANGED <<clock, slotVars, adminVars, formVars, evalVars, pageVars,
                   profilePending, authError>>

\* The message login throws for a failed request.
loginMessage(status, asAdmin) ==
    IF status = 401 THEN "Invalid email or password"
    ELSE IF status = 403
      THEN IF asAdmin THEN "Not authorized as admin"
           ELSE "Please use admin login"
    ELSE "An error occurred during login"

\* ---- Variant of login's catch block with one slip.
loginCatch_KeepsStoredUser(status, message) ==
    /\ localStorage' = [EmptyStorage EXCEPT !.user = localStorage.user]
    /\ token' = NoToken
    /\ authUser' = NoUser
    /\ authError' = message
    /\ loading' = FALSE
    /\ authOp' = [authOp EXCEPT !.pc = "idle", !.status = status]

\* catch and finally of login; when register called it, its own catch and
\* finally follow and repeat the same assignments.
loginCatch(status, message) ==
    /\ localStorage' = EmptyStorage
    /\ token' = NoToken
    /\ authUser' = NoUser
    /\ authError' = message
    /\ loading' = FALSE
    /\ authOp' = [authOp EXCEPT !.pc = "idle", !.status = status]

\* The login form calls login; its button is disabled while a call is
\* under way.
login(acct, asAdmin) ==
    /\ authOp.pc = "idle"
    /\ loading' = TRUE
    /\ authError' = ""
    /\ authOp' = [pc |-> "token", acct |-> acct, isAdmin |-> asAdmin,
                  nested |-> FALSE, status |-> 200]
    /\ UNCHANGED <<clock, slotVars, adminVars, formVars, evalVars, pageVars,
                   profilePending, authUser, token, localStorage>>

\* POST /api/token/ answers.
TokenReplied(status) ==
    /\ authOp.pc = "token"
    /\ IF status = 200
         THEN /\ localStorage' =
                    [localStorage EXCEPT !.access_token = authOp.acct,
                                         !.refresh_token = authOp.acct]
              /\ authOp' = [authOp EXCEPT !.pc = "me"]
              /\ UNCHANGED <<authUser, token, loading, authError>>
       ELSE loginCatch(status, loginMessage(status, authOp.isAdmin))
    /\ UNCHANGED <<clock, slotVars, adminVars, formVars, evalVars, pageVars,
                   profilePending>>

\* GET /api/users/me/ answers.
UserReplied(status) ==
    /\ authOp.pc = "me"
    /\ LET userData == UserOf(authOp.acct)
       IN  IF status # 200
             THEN loginCatch(status, loginMessage(status, authOp.isAdmin))
           ELSE IF authOp.isAdmin /\ userData.role # "ADMIN"
             THEN loginCatch(status, "Not authorized as admin")
           ELSE /\ localStorage' =
                      [localStorage EXCEPT !.user = JSONstringify(userData)]
                /\ token' = authOp.acct
                /\ authUser' = userData
                /\ loading' = FALSE
                /\ authOp' = [authOp EXCEPT !.pc = "idle", !.status = status]
                /\ UNCHANGED authError
    /\ UNCHANGED <<clock, slotVars, adminVars, formVars, evalVars, pageVars,
                   profilePending>>

\* Dashboard and the admin Sidebar call logout; both are rendered behind a
\* route guard.
logout ==
    /\ authOp.pc = "idle"
    /\ PrivateRoute = "children" \/ AdminRoute = "children"
    /\ localStorage' = EmptyStorage
    /\ token' = NoToken
    /\ authUser' = NoUser
    /\ loading' = FALSE
    /\ UNCHANGED <<clock, slotVars, adminVars, formVars, evalVars, pageVars,
                   profilePending, authOp, authError>>

\* updateUser of the context value
updateUser(userData) ==
    /\ authUser' = userData
    /\ localStorage' = [localStorage EXCEPT !.user = JSONstringify(userData)]

\* "Save Changes" of the Dashboard's profile form (disabled while
\* updateProfile.isPending): PUT /api/users/me/ with the stored access token.
handleProfileSubmit ==
    /\ PrivateRoute = "children"
    /\ profilePending = 0
    /\ localStorage.access_token # NoToken
    /\ profilePending' = localStorage.access_token
    /\ UNCHANGED <<clock, slotVars, adminVars, formVars, evalVars, pageVars,
                   authUser, token, loading, localStorage, authOp, authError>>

\* The PUT succeeds: onSuccess calls updateUser with the record returned.
ProfileUpdated ==
    /\ profilePending # 0
    /\ updateUser(UserOf(profilePending))
    /\ profilePending' = 0
    /\ UNCHANGED <<clock, slotVars, adminVars, formVars, evalVars, pageVars,
                   token, loading, authOp, authError>>

\* The PUT fails: onError shows a message.
ProfileFailed ==
    /\ profilePending # 0
    /\ profilePending' = 0
    /\ UNCHANGED <<clock, slotVars, adminVars, formVars, evalVars, pageVars,
                   authUser, token, loading, localStorage, authOp, authError>>

register(acct) ==
    /\ authOp.pc = "idle"
    /\ loading' = TRUE
    /\ authError' = ""
    /\ authOp' = [pc |-> "register", acct |-> acct, isAdmin |-> FALSE,
                  nested |-> TRUE, status |-> 200]
    /\ UNCHANGED <<clock, slotVars, adminVars, formVars, evalVars, pageVars,
                   profilePending, authUser, token, localStorage>>

\* POST /api/register/ answers; on success register calls login.
RegisterReplied(status) ==
    /\ authOp.pc = "register"
    /\ IF status = 200
         THEN /\ loading' = TRUE
              /\ authOp' = [authOp EXCEPT !.pc = "token"]
              /\ UNCHANGED <<authUser, token, localStorage, authError>>
       ELSE /\ localStorage' = EmptyStorage
            /\ token' = NoToken
            /\ authUser' = NoUser
            /\ authError' =
                  IF status = 400
                    THEN "Registration failed. Please check your input."
                  ELSE "Registration failed. Please try again."
            /\ loading' = FALSE
            /\ authOp' = [authOp EXCEPT !.pc = "idle", !.status = status]
    /\ UNCHANGED <<clock, slotVars, adminVars, formVars, evalVars, pageVars,
                   profilePending>>

AuthIdle ==
    /\ authUser = NoUser
    /\ token = NoToken
    /\ loading = FALSE
    /\ localStorage = EmptyStorage
    /\ authOp = [NoCall EXCEPT !.pc = "idle"]
    /\ authError = ""
    /\ profilePending = 0

PageIdle ==
    /\ cancelPending = 0
    /\ cancelResponse = "none"
    /\ refetchRequested = FALSE
    /\ vehiclePlate = <<>>
    /\ plateInput = <<>>

RestIdle == EvalIdle /\ AuthIdle /\ PageIdle

AdminIdle ==
    /\ srvStatus = [i \in Rids |-> "PENDING"]
    /\ resEnd = [i \in Rids |-> 1]
    /\ reservationsData = [loaded |-> FALSE, results |-> <<>>, next |-> 0]
    /\ allReservations = <<>>
    /\ isLoadingMore = FALSE
    /\ runs = <<>>
    /\ confirmPending = 0
    /\ declinePending = 0

SlotsIdle ==
    /\ user = 0
    /\ spot = [id |-> 1, is_occupied |-> FALSE,
               current_reservation |-> NoReservation]
    /\ currentTime = clock
    /\ selectedSpot = 0
    /\ showReservationModal = FALSE
    /\ reservationToCancel = 0
    /\ showCancelModal = FALSE

NextSlots ==
    \/ ClockAdvance
    \/ CurrentTimeTick
    \/ handleReservation
    \/ handleCancelReservation
    \/ HideReservationModal
    \/ HideCancelModal
    \/ RefetchSpots
    \/ RefetchSpotsReserved

InitSlotsPage == clock = 0 /\ InitSlots /\ AdminIdle /\ FormIdle /\ RestIdle

SpecSlots == InitSlotsPage /\ [][NextSlots]_vars

NextAdmin ==
    \/ ClockAdvance
    \/ QueryFetch
    \/ \E i \in 1..MaxRuns : PageLoaded(i)
    \/ \E i \in 1..MaxRuns : PageFailed(i)
    \/ StatusTimerTick
    \/ \E id \in Rids : ConfirmClick(id)
    \/ ConfirmSucceeded
    \/ ConfirmFailed
    \/ \E id \in Rids : DeclineClick(id)
    \/ DeclineSucceeded
    \/ DeclineFailed
    \/ \E id \in Rids : OwnerCancel(id)

InitAdminPage == clock = 0 /\ SlotsIdle /\ InitAdmin /\ FormIdle /\ RestIdle

SpecAdmin == InitAdminPage /\ [][NextAdmin]_vars

\* The ParkingSlots page of a signed-in user, slot 1 free.
InitFormPage ==
    /\ clock = 0
    /\ user \in UserIds
    /\ spot = [id |-> 1, is_occupied |-> FALSE,
               current_reservation |-> NoReservation]
    /\ currentTime = clock
    /\ selectedSpot = 0
    /\ showReservationModal = FALSE
    /\ reservationToCancel = 0
    /\ showCancelModal = FALSE
    /\ AdminIdle
    /\ InitForm
    /\ RestIdle

\* The user at the reservation form of slot 1.
NextForm ==
    \/ ClockAdvance
    \/ CurrentTimeTick
    \/ handleReservation
    \/ HideReservationModal
    \/ \E newValue \in Dates : handleStartTimeChange(newValue)
    \/ \E newValue \in Dates : handleEndTimeChange(newValue)
    \/ handleReservationSubmit
    \/ CreateCommitted
    \/ SubmitSucceeded
    \/ SubmitFailed
    \/ HideSuccessModal
    \/ SpotsRefetched

SpecForm == InitFormPage /\ [][NextForm]_vars

\* Several users reserving at the same time: this page's user through the
\* form, the others through pages of their own, while reservations are
\* confirmed and cancelled.
NextBooking ==
    \/ handleReservation
    \/ \E newValue \in Dates : handleStartTimeChange(newValue)
    \/ \E newValue \in Dates : handleEndTimeChange(newValue)
    \/ handleReservationSubmit
    \/ CreateCommitted
    \/ \E u \in UserIds, slot \in LocationSlots, s, e \in Times :
          OtherUserCreates(u, slot, s, e)
    \/ \E id \in Rids, status \in {"CONFIRMED", "CANCELLED"} :
          StoreStatusChanged(id, status)
    \/ SubmitSucceeded
    \/ SubmitFailed
    \/ SpotsRefetched

SpecBooking == InitFormPage /\ [][NextBooking]_vars

\* Dashboard: const activeReservations = allReservations.filter(...).length
activeReservations ==
    LET counted(reservation) ==
            reservation.status = "CONFIRMED" /\ reservation.end_time > clock
    IN  Len(SelectSeq(allReservations, counted))

\* The user's Dashboard: its list is loaded page by page as on the admin page
\* (the same effect), and is reloaded after the owner cancels a reservation;
\* it has no status timer and no mutation of reservations.
NextDashboard ==
    \/ ClockAdvance
    \/ QueryFetch
    \/ \E i \in 1..MaxRuns : PageLoaded(i)
    \/ \E i \in 1..MaxRuns : PageFailed(i)
    \/ \E id \in Rids : OwnerCancel(id)

SpecDashboard == InitAdminPage /\ [][NextDashboard]_vars

\* The ParkingSlots page of a user who holds the reservations of slot 1.
InitCancelPage ==
    /\ clock = 0
    /\ user \in UserIds
    /\ store = ownReservations(user)
    /\ spot = [id |-> 1, is_occupied |-> FALSE,
               current_reservation |-> currentReservationOf(store, 1)]
    /\ currentTime = clock
    /\ selectedSpot = 0
    /\ showReservationModal = FALSE
    /\ reservationToCancel = 0
    /\ showCancelModal = FALSE
    /\ AdminIdle
    /\ startTime = clock
    /\ endTime = clock
    /\ timeError = ""
    /\ startTimeError = ""
    /\ showSuccessModal = FALSE
    /\ showMessageModal = FALSE
    /\ messageModalType = "success"
    /\ posted = NoRequest
    /\ response = "none"
    /\ RestIdle

NextCancel ==
    \/ handleCancelReservation
    \/ HideCancelModal
    \/ confirmCancel
    \/ CancelCommitted
    \/ CancelRejected
    \/ cancelOnSuccess
    \/ cancelOnError
    \/ HideMessageModal
    \/ RefetchAnswered
    \/ SpotsRefetched
    \/ \E id \in Rids, status \in {"CONFIRMED", "CANCELLED"} :
          StoreStatusChanged(id, status)

SpecCancel == InitCancelPage /\ [][NextCancel]_vars

\* The plate field of the reservation form, empty at first.
InitPlatePage ==
    clock = 0 /\ SlotsIdle /\ AdminIdle /\ FormIdle /\ RestIdle

NextPlate == \E input \in Inputs(vehiclePlate) : handleVehiclePlateChange(input)

SpecPlate == InitPlatePage /\ [][NextPlate]_vars

\* The status evaluation applied once to inputs of every kind.
InitEvalPage ==
    /\ clock = 0 /\ SlotsIdle /\ AdminIdle /\ FormIdle /\ InitEval
    /\ AuthIdle /\ PageIdle

NextEval == Evaluate

SpecEval == InitEvalPage /\ [][NextEval]_vars

\* AuthProvider from its mount on, with whatever an earlier visit left in
\* localStorage.
InitAuthPage ==
    /\ clock = 0 /\ SlotsIdle /\ AdminIdle /\ FormIdle /\ EvalIdle
    /\ InitAuth /\ PageIdle

NextAuth ==
    \/ AuthProviderMount
    \/ initializeAuth
    \/ \E acct \in AccountIds, asAdmin \in BOOLEAN : login(acct, asAdmin)
    \/ \E status \in Replies : TokenReplied(status)
    \/ \E status \in Replies : UserReplied(status)
    \/ logout
    \/ \E acct \in AccountIds : register(acct)
    \/ \E status \in Replies : RegisterReplied(status)
    \/ handleProfileSubmit
    \/ ProfileUpdated
    \/ ProfileFailed

SpecAuth == InitAuthPage /\ [][NextAuth]_vars

\* The page left alone: time, the loader and the status timer, which
\* setInterval keeps firing.
NextTimer ==
    \/ ClockAdvance
    \/ QueryFetch
    \/ \E i \in 1..MaxRuns : PageLoaded(i)
    \/ \E i \in 1..MaxRuns : PageFailed(i)
    \/ StatusTimerTick

SpecTimer ==
    /\ InitAdminPage
    /\ [][NextTimer]_vars
    /\ WF_vars(StatusTimerTick)

(***************************************************************************)
(* Properties                                                              *)
(***************************************************************************)

res == spot.current_reservation
hasReservation == res.id # 0

\* C1: a PENDING reservation evaluated after its end_time is labelled EXPIRED,
\* whoever the viewer and whatever the occupancy flag.
C1_PendingPastEndIsExpired ==
    (hasReservation /\ res.status = "PENDING" /\ currentTime > res.end_time)
        => slotStatus.text = "Expired"

\* C2: a CONFIRMED reservation evaluated after its end_time is labelled
\* COMPLETED and the card offers neither RESERVE nor CANCEL.
C2_ConfirmedPastEndIsCompleted ==
    (hasReservation /\ res.status = "CONFIRMED" /\ currentTime > res.end_time)
        => (slotStatus.text = "Completed" /\ slotActions = {})

\* C3: a CONFIRMED reservation evaluated strictly between start_time and
\* end_time is labelled Occupied and the card offers no action, for every
\* viewer.
C3_ConfirmedInProgressIsOccupied ==
    (/\ hasReservation
     /\ res.status = "CONFIRMED"
     /\ res.start_time < currentTime
     /\ currentTime < res.end_time)
        => (slotStatus.text = "Occupied" /\ slotActions = {})

\* The reservation's owner looks at the slot while the reservation runs.
C3_Witness ==
    /\ hasReservation
    /\ res.status = "CONFIRMED"
    /\ res.start_time < currentTime
    /\ currentTime < res.end_time
    /\ user = res.user
    /\ slotStatus.text = "Occupied"

\* C4: a slot without current reservation and with is_occupied false is
\* labelled Available and offers RESERVE only; the form opened by the click is
\* the form of that slot.
C4_FreeSlotIsAvailable ==
    (~hasReservation /\ ~spot.is_occupied)
        => (/\ slotStatus.text = "Available"
            /\ slotActions = {"RESERVE"}
            /\ (showReservationModal => selectedSpot = spot.id))

\* The free slot has been clicked.
C4_Witness ==
    /\ ~hasReservation
    /\ ~spot.is_occupied
    /\ showReservationModal
    /\ selectedSpot = spot.id
    /\ slotActions = {"RESERVE"}

\* C5: the owner of a PENDING reservation sees the label Pending and is
\* offered exactly CANCEL, carrying the reservation's id.
C5_OwnersPendingOffersCancel ==
    (hasReservation /\ res.status = "PENDING" /\ user # 0 /\ res.user = user)
        => (/\ slotStatus.text = "Pending"
            /\ slotActions = {"CANCEL"}
            /\ slotStatus.reservationId = res.id)

\* The owner has pressed Cancel on the card: the dialog holds the id.
C5_Witness ==
    /\ hasReservation
    /\ res.status = "PENDING"
    /\ res.user = user
    /\ currentTime > res.end_time
    /\ showCancelModal
    /\ reservationToCancel = res.id

\* C6: a CONFIRMED reservation evaluated before its start_time is labelled
\* Confirmed and RESERVE is not offered.
C6_ConfirmedUpcomingIsConfirmed ==
    (hasReservation /\ res.status = "CONFIRMED" /\ currentTime < res.start_time)
        => (slotStatus.text = "Confirmed" /\ "RESERVE" \notin slotActions)

C6_Witness ==
    /\ hasReservation
    /\ res.status = "CONFIRMED"
    /\ currentTime < res.start_time
    /\ ~spot.is_occupied
    /\ slotStatus.text = "Confirmed"

\* The reservation cases that getSlotStatus tries before the occupancy flag.
ownersPending == hasReservation /\ res.status = "PENDING" /\ user # 0 /\ res.user = user
confirmedInProgress ==
    /\ hasReservation
    /\ res.status = "CONFIRMED"
    /\ res.start_time <= currentTime
    /\ currentTime <= res.end_time
confirmedUpcoming ==
    hasReservation /\ res.status = "CONFIRMED" /\ currentTime < res.start_time

\* C7: with the occupancy flag set and none of the reservation cases matching
\* (the owner's PENDING, CONFIRMED in progress, CONFIRMED upcoming) the label
\* is Occupied and no action is offered.
C7_OccupancyFlagFallback ==
    (/\ spot.is_occupied
     /\ ~ownersPending
     /\ ~confirmedInProgress
     /\ ~confirmedUpcoming)
        => (slotStatus.text = "Occupied" /\ slotActions = {})

\* The flag decides for somebody else's PENDING reservation.
C7_Witness ==
    /\ spot.is_occupied
    /\ hasReservation
    /\ res.status = "PENDING"
    /\ user # 0
    /\ res.user # user
    /\ slotStatus.text = "Occupied"
    /\ slotActions = {}

\* The five transitions of the reservation lifecycle.
LifecycleTransitions ==
    {<<"PENDING", "CONFIRMED">>, <<"PENDING", "CANCELLED">>,
     <<"CONFIRMED", "CANCELLED">>, <<"PENDING", "EXPIRED">>,
     <<"CONFIRMED", "COMPLETED">>}

\* A step of the loader (QueryFetch, PageLoaded, PageFailed): the only steps
\* that change reservationsData or runs.
isLoaderStep == reservationsData' # reservationsData \/ runs' # runs

\* A step of onError (ConfirmFailed, DeclineFailed) of the mutation in flight
\* for id: the only steps that end a mutation and rewrite the list.
isRollbackOf(id) ==
    /\ allReservations' # allReservations
    /\ \/ confirmPending = id /\ confirmPending' = 0
       \/ declinePending = id /\ declinePending' = 0

\* C8 as stated: every change the timer tick, the optimistic confirm/decline,
\* their error rollback and the owner's cancel make to a listed reservation's
\* status is one of the five transitions, so CANCELLED, COMPLETED and EXPIRED
\* are never left.
C8_EveryChangeIsLifecycleTransition ==
    [][~isLoaderStep =>
         \A id \in Rids :
            statusIn(allReservations, id) # statusIn(allReservations', id)
              => <<statusIn(allReservations, id), statusIn(allReservations', id)>>
                    \in LifecycleTransitions]_vars

\* C8 as amended: the timer tick, the optimistic confirm/decline and the
\* owner's cancel change a listed status only along the five transitions; the
\* rollback of a failed confirm/decline changes only the reservation it was
\* started for, and sets it to PENDING whatever its status has become.
C8_ForwardOpsFollowLifecycle ==
    [][~isLoaderStep =>
         \A id \in Rids :
            LET a == statusIn(allReservations, id)
                b == statusIn(allReservations', id)
            IN  a # b =>
                  IF isRollbackOf(id) THEN b = "PENDING"
                  ELSE <<a, b>> \in LifecycleTransitions]_vars

\* A confirm is in flight for a reservation the timer has completed
\* meanwhile: its rollback would take it out of COMPLETED.
C8_Witness ==
    /\ confirmPending # 0
    /\ statusIn(allReservations, confirmPending) = "COMPLETED"
    /\ srvStatus[confirmPending] = "PENDING"

\* C9: left to the timer (no admin action), a listed PENDING reservation whose
\* end_time has passed eventually is EXPIRED, and a CONFIRMED one eventually
\* COMPLETED.
C9_TimerExpiresAndCompletes ==
    \A id \in Rids :
       /\ (\E i \in DOMAIN allReservations :
              /\ allReservations[i].id = id
              /\ allReservations[i].status = "PENDING"
              /\ allReservations[i].end_time < clock)
            ~> hasStatus(allReservations, id, "EXPIRED")
       /\ (\E i \in DOMAIN allReservations :
              /\ allReservations[i].id = id
              /\ allReservations[i].status = "CONFIRMED"
              /\ allReservations[i].end_time < clock)
            ~> hasStatus(allReservations, id, "COMPLETED")

\* The timer has expired one reservation and completed another, which the
\* API still holds as PENDING and CONFIRMED.
C9_Witness ==
    \E i, j \in Rids :
       /\ statusIn(allReservations, i) = "EXPIRED"
       /\ srvStatus[i] = "PENDING"
       /\ statusIn(allReservations, j) = "COMPLETED"
       /\ srvStatus[j] = "CONFIRMED"

\* The labels of the slot card in upper case, as the admin badge writes them.
upperCase(text) ==
    CASE text = "Pending" -> "PENDING"
      [] text = "Confirmed" -> "CONFIRMED"
      [] text = "Occupied" -> "OCCUPIED"
      [] text = "Available" -> "AVAILABLE"
      [] text = "Completed" -> "COMPLETED"
      [] text = "Expired" -> "EXPIRED"
      [] OTHER -> text

\* The pairs (earlier label, later label) that move backward through
\* PENDING -> CONFIRMED -> OCCUPIED -> COMPLETED or PENDING -> EXPIRED, and
\* those that leave COMPLETED or EXPIRED for PENDING, CONFIRMED or AVAILABLE.
Backward ==
    {<<"CONFIRMED", "PENDING">>, <<"OCCUPIED", "PENDING">>,
     <<"OCCUPIED", "CONFIRMED">>, <<"COMPLETED", "PENDING">>,
     <<"COMPLETED", "CONFIRMED">>, <<"COMPLETED", "OCCUPIED">>,
     <<"COMPLETED", "AVAILABLE">>, <<"EXPIRED", "PENDING">>,
     <<"EXPIRED", "CONFIRMED">>, <<"EXPIRED", "AVAILABLE">>}

\* C10: for a fixed reservation and viewer and instants t1 < t2 the label at
\* t2 is never earlier than the label at t1 in Pending -> Confirmed ->
\* Occupied -> Completed or Pending -> Expired; after Completed or Expired it
\* is never Pending, Confirmed or Available.
C10_LabelNeverMovesBackward ==
    \A t1, t2 \in Times :
       t1 < t2 =>
          /\ <<upperCase(getSlotStatus(spot, user, t1).text),
               upperCase(getSlotStatus(spot, user, t2).text)>> \notin Backward
          /\ hasReservation =>
               <<getStatusBadge(res, t1), getStatusBadge(res, t2)>> \notin Backward

\* The page has watched a CONFIRMED reservation start: the label it showed
\* at instant 0 was Confirmed and is Occupied now, and the badge of the same
\* reservation reads COMPLETED by the end of the clock.
C10_Witness ==
    /\ hasReservation
    /\ res.status = "CONFIRMED"
    /\ currentTime > 0
    /\ getSlotStatus(spot, user, 0).text = "Confirmed"
    /\ slotStatus.text = "Occupied"
    /\ getStatusBadge(res, 0) = "CONFIRMED"
    /\ getStatusBadge(res, MaxTime) = "COMPLETED"

\* The cards the page renders under some tab.
renderedCards ==
    UNION {{filterReservationsByStatus(allReservations, tab, clock)[i] :
              i \in DOMAIN filterReservationsByStatus(allReservations, tab, clock)} :
           tab \in Tabs}

\* C14: the admin view renders CONFIRM and DECLINE on a reservation's card
\* exactly when the reservation's status is PENDING, and on no CONFIRMED,
\* CANCELLED, COMPLETED or EXPIRED reservation, also while an optimistic
\* update is in flight; a button that can be pressed is one of these.
C14_ActionsExactlyOnPending ==
    \A r \in renderedCards :
       /\ r.status = "PENDING" => reservationCardActions(r) = {"CONFIRM", "DECLINE"}
       /\ r.status \in {"CONFIRMED", "CANCELLED", "COMPLETED", "EXPIRED"}
            => reservationCardActions(r) = {}
       /\ enabledCardActions(r) # {} => r.status = "PENDING"

\* A confirm is in flight: its reservation is listed CONFIRMED and carries no
\* button, another reservation is PENDING and carries both.
C14_Witness ==
    /\ confirmPending # 0
    /\ \E r1, r2 \in renderedCards :
          /\ r1.id = confirmPending
          /\ r1.status = "CONFIRMED"
          /\ reservationCardActions(r1) = {}
          /\ r2.status = "PENDING"
          /\ reservationCardActions(r2) = {"CONFIRM", "DECLINE"}

\* No two PENDING/CONFIRMED reservations of one slot have overlapping
\* intervals in the API's store st.
noDoubleBooking(st) ==
    \A i, j \in DOMAIN st :
       (/\ i < j
        /\ st[i].slot = st[j].slot
        /\ st[i].status \in ActiveStatuses
        /\ st[j].status \in ActiveStatuses)
          => ~overlaps(st[i], st[j])

\* The request `posted` overlaps a PENDING/CONFIRMED reservation of its slot.
postedOverlapsActive ==
    \E i \in DOMAIN store :
       /\ store[i].slot = posted.slot
       /\ store[i].status \in ActiveStatuses
       /\ overlaps(store[i], posted)

\* C11: however the creation requests of several users interleave, a request
\* whose interval overlaps a PENDING or CONFIRMED reservation of its slot is
\* rejected as a conflict and stores nothing, and the store never holds two
\* PENDING/CONFIRMED reservations of one slot with overlapping intervals.
C11_NoDoubleBooking ==
    [][/\ (posted # NoRequest /\ posted' = NoRequest /\ postedOverlapsActive)
            => /\ store' = store
               /\ posted.start_time < posted.end_time => response' = "conflict"
       /\ noDoubleBooking(store')]_vars

\* The page's request has been rejected as a conflict with the active
\* reservation another user holds on slot 1, next to a cancelled one.
C11_Witness ==
    /\ response = "conflict"
    /\ \E i, j \in DOMAIN store :
          /\ store[i].slot = 1
          /\ store[i].status \in ActiveStatuses
          /\ store[i].user # user
          /\ store[j].status = "CANCELLED"

\* C12: when the creation request fails, the catch path of
\* handleReservationSubmit leaves an error message on display, the success
\* dialog closed and the form open with its slot selected, ready to resubmit.
C12_FailedSubmitShowsError ==
    [][(response \in {"conflict", "invalid"} /\ response' = "none")
          => /\ showMessageModal' /\ messageModalType' = "error"
             /\ ~showSuccessModal'
             /\ showReservationModal'
             /\ selectedSpot' # 0]_vars

\* C13: whatever start and end times have been entered and whatever has been
\* submitted, the Reserve button is enabled only with startTime before
\* endTime, so every request the form posts has start_time < end_time.
C13_SubmitOnlyWithStartBeforeEnd ==
    /\ (showReservationModal /\ submitEnabled)
          => (startTime # NoDate /\ endTime # NoDate /\ startTime < endTime)
    /\ posted # NoRequest => posted.start_time < posted.end_time

evalRes == evalSpot.current_reservation

\* C15 as stated: two slots with equal current_reservation (or both without
\* one) evaluated at the same instant get the same label, whatever their
\* other fields.
C15_LabelFromReservationAndTimeOnly ==
    evalResult.ran => evalResult.first.text = evalResult.twin.text

\* C15 as amended: two slots with equal current_reservation and equal
\* is_occupied, evaluated at the same instant for the same viewer, get the
\* same label and actions, whatever their other fields (id, is_reserved).
C15_LabelFromReservationFlagViewerTime ==
    (evalResult.ran /\ evalTwin.is_occupied = evalSpot.is_occupied)
        => evalResult.first = evalResult.twin

\* Two slots that differ in id and is_reserved only, both Occupied by the
\* flag next to somebody else's PENDING reservation.
C15_Witness ==
    /\ evalResult.ran
    /\ evalTwin.id # evalSpot.id
    /\ evalTwin.is_reserved # evalSpot.is_reserved
    /\ evalTwin.is_occupied /\ evalSpot.is_occupied
    /\ evalRes.status = "PENDING"
    /\ evalRes.user # evalViewer
    /\ evalResult.first.text = "Occupied"
    /\ evalResult.twin.text = "Occupied"

\* The labels of a slot card.
SlotLabels ==
    {"Pending", "Confirmed", "Occupied", "Available", "Completed", "Expired"}

\* C16: for a reservation with start_time >= end_time (start_time = end_time
\* included) the status evaluation fails with InvalidReservationState: it
\* returns no label.
C16_MalformedIntervalFails ==
    (/\ evalResult.ran
     /\ evalRes.id # 0
     /\ evalRes.start_time >= evalRes.end_time)
        => evalResult.first.text \notin SlotLabels

\* C17: for a reservation whose status is none of PENDING, CONFIRMED,
\* CANCELLED, COMPLETED, EXPIRED the status evaluation fails with
\* UnknownStatus: the slot card gets no label (no default such as Available
\* or Occupied) and the admin badge prints nothing.
C17_UnknownStatusFails ==
    (/\ evalResult.ran
     /\ evalRes.id # 0
     /\ evalRes.status \notin Statuses)
        => /\ evalResult.first.text \notin SlotLabels
           /\ evalResult.badge = ""

\* C18: the Dashboard's 'Active Reservations' count is the number of loaded
\* reservations that are PENDING or CONFIRMED with end_time not yet passed.
C18_ActiveCountIsGlossaryActive ==
    activeReservations =
        Cardinality({i \in DOMAIN allReservations :
                        /\ allReservations[i].status \in ActiveStatuses
                        /\ allReservations[i].end_time > clock})

\* A call of login comes to its end in this step.
loginEnds == authOp.pc \in {"token", "me"} /\ authOp'.pc = "idle"

guardsHold ==
    /\ AdminRoute = "children" => authUser # NoUser /\ authUser.role = "ADMIN"
    /\ PrivateRoute = "children" => authUser # NoUser

\* C19: whatever the sequence of initialization, login, register and
\* logout, the children of AdminRoute are rendered only with a user of role
\* ADMIN present and those of PrivateRoute only with a user present; and
\* an admin login by an account whose role is not ADMIN ends with no user
\* and no token.
C19_RoleBasedAccess ==
    [][/\ guardsHold
       /\ guardsHold'
       /\ (loginEnds /\ authOp.isAdmin /\ UserOf(authOp.acct).role # "ADMIN")
            => authUser' = NoUser /\ token' = NoToken]_vars

\* An admin login by the basic account got its token and its user record
\* and was refused.
C19_Witness ==
    /\ authOp.pc = "idle"
    /\ authOp.isAdmin
    /\ authOp.acct = 1
    /\ authOp.status = 200
    /\ authError = "Not authorized as admin"
    /\ authUser = NoUser
    /\ token = NoToken

\* C20: a call of login ends in one of two ways.  It succeeds, and then the
\* access token, the refresh token and the user are stored; or it fails
\* with an error ("Invalid email or password" on a 401), and then token and
\* user are null and localStorage holds none of access_token, refresh_token
\* and user, whatever was stored before.  loading is false either way.
C20_LoginOutcomes ==
    [][loginEnds =>
          /\ loading' = FALSE
          /\ \/ /\ authError' = ""
                /\ localStorage' =
                      [access_token |-> authOp.acct,
                       refresh_token |-> authOp.acct,
                       user |-> JSONstringify(UserOf(authOp.acct))]
                /\ token' = authOp.acct
                /\ authUser' = UserOf(authOp.acct)
             \/ /\ authError' # ""
                /\ authOp'.status = 401
                      => authError' = "Invalid email or password"
                /\ token' = NoToken
                /\ authUser' = NoUser
                /\ localStorage' = EmptyStorage]_vars

\* A login has failed on a 401 while another account was logged in.
C20_Witness ==
    /\ authOp.pc = "idle"
    /\ authOp.status = 401
    /\ authError = "Invalid email or password"
    /\ localStorage = EmptyStorage
    /\ authUser = NoUser
    /\ ~loading

\* C21: the slot view, the admin tabs and the admin dashboard counts agree,
\* at every instant, on whether a CONFIRMED reservation is finished: the
\* slot (its occupancy flag off) is Available again exactly when the
\* reservation is listed under the completed tab and counted as completed.
C21_SurfacesAgree ==
    (/\ evalResult.ran
     /\ evalSpot.current_reservation.status = "CONFIRMED"
     /\ evalSpot.current_reservation.start_time
           < evalSpot.current_reservation.end_time
     /\ ~evalSpot.is_occupied)
        => /\ evalResult.first.text = "Available"
                <=> "completed" \in evalResult.tabs
           /\ "completed" \in evalResult.tabs
                <=> evalResult.stats.completed = 1

\* C23: a slot whose current reservation is PENDING or CONFIRMED with its
\* end_time not yet passed is never labelled Available (the label that
\* carries Reserve), whoever the viewer and whatever the occupancy flag.
C23_NoReserveOnActiveReservation ==
    (/\ evalResult.ran
     /\ evalSpot.current_reservation.status \in {"PENDING", "CONFIRMED"}
     /\ evalSpot.current_reservation.start_time
           < evalSpot.current_reservation.end_time
     /\ evalNow <= evalSpot.current_reservation.end_time)
        => evalResult.first.text # "Available"

\* C24: a confirm (decline) starts on a reservation listed as PENDING and
\* sets that one to CONFIRMED (CANCELLED); when it ends, either the request
\* went through and the list is as it was, or it failed and the list is as it
\* was but for that reservation, which is PENDING again, as it was when the
\* mutation started.  The timer tick and reloads may come in between.
C24_OptimisticUpdateAndRollback ==
    [][\A id \in Rids :
          /\ (confirmPending = 0 /\ confirmPending' = id)
                => /\ statusIn(allReservations, id) = "PENDING"
                   /\ allReservations' = setStatus(allReservations, id, "CONFIRMED")
          /\ (declinePending = 0 /\ declinePending' = id)
                => /\ statusIn(allReservations, id) = "PENDING"
                   /\ allReservations' = setStatus(allReservations, id, "CANCELLED")
          /\ (confirmPending = id /\ confirmPending' = 0)
                => \/ /\ srvStatus'[id] = "CONFIRMED"
                      /\ allReservations' = allReservations
                   \/ /\ srvStatus' = srvStatus
                      /\ allReservations' = setStatus(allReservations, id, "PENDING")
          /\ (declinePending = id /\ declinePending' = 0)
                => \/ /\ srvStatus'[id] = "CANCELLED"
                      /\ allReservations' = allReservations
                   \/ /\ srvStatus' = srvStatus
                      /\ allReservations' = setStatus(allReservations, id, "PENDING")
      ]_vars

\* A confirm and a decline are under way for one reservation (a reload put
\* it back to PENDING in between), and the timer has run on the list.
C24_Witness ==
    /\ confirmPending # 0
    /\ declinePending = confirmPending
    /\ \E j \in Rids : /\ statusIn(allReservations, j) \in {"EXPIRED", "COMPLETED"}
                       /\ srvStatus[j] \in {"PENDING", "CONFIRMED"}

\* C25: once every run of loadAllReservations has finished, allReservations
\* is the list built from the newest reservationsData: it begins with the
\* results of that first page, whatever runs were started from older ones.
C25_NewestDataWins ==
    (reservationsData.loaded /\ runs = <<>>)
        => /\ Len(allReservations) >= Len(reservationsData.results)
           /\ \A i \in DOMAIN reservationsData.results :
                 allReservations[i] = reservationsData.results[i]

\* The tab a badge names.
tabNamed(badge) ==
    CASE badge = "PENDING" -> "pending"
      [] badge = "CONFIRMED" -> "confirmed"
      [] badge = "COMPLETED" -> "completed"
      [] badge = "CANCELLED" -> "cancelled"
      [] badge = "EXPIRED" -> "expired"
      [] OTHER -> "none"

\* C26: at every instant each listed reservation is under exactly one of
\* the tabs pending, confirmed, completed, cancelled and expired, the one
\* its badge names; and the five counts of getReservationStats add up to the
\* length of the list.
C26_TabsPartitionTheList ==
    /\ \A i \in DOMAIN allReservations :
          tabsOf(allReservations[i], clock)
             = {tabNamed(getStatusBadge(allReservations[i], clock))}
    /\ LET stats == getReservationStats(allReservations, clock)
       IN  stats.pending + stats.confirmed + stats.completed
              + stats.cancelled + stats.expired = Len(allReservations)

\* The list holds a CONFIRMED reservation past its end_time, which the timer
\* has not rewritten yet, next to one that is not CONFIRMED.
C26_Witness ==
    /\ Len(allReservations) = MaxRes
    /\ \E i \in DOMAIN allReservations :
          /\ allReservations[i].status = "CONFIRMED"
          /\ allReservations[i].end_time <= clock
          /\ tabsOf(allReservations[i], clock) = {"completed"}
    /\ \E i \in DOMAIN allReservations : allReservations[i].status # "CONFIRMED"

\* The reservations of pages 1..k of the API's list, in order.
isPagePrefix(list) == \A j \in DOMAIN list : list[j].id = j

cancelFailed == cancelResponse = "error" /\ cancelResponse' = "none"
cancelSucceeded == cancelResponse = "ok" /\ cancelResponse' = "none"

C29_TokenIffUser ==
    authOp.pc = "idle" => (isAuthenticated <=> authUser # NoUser)

\* C30: after every change of the plate field the stored plate is made of
\* the characters A-Z and 0-9 only and is at most 6 long; a change whose
\* text, once upper-cased, has another character or is longer than 6 leaves
\* the stored plate as it was.
C30_PlateStaysWellFormed ==
    [][/\ isUpperAlnum(vehiclePlate')
       /\ Len(vehiclePlate') <= MaxPlateLength
       /\ (\/ ~isUpperAlnum(toUpperCase(plateInput'))
           \/ Len(toUpperCase(plateInput')) > MaxPlateLength)
             => vehiclePlate' = vehiclePlate]_vars

\* A full plate typed in lower case is stored in upper case, and a longer
\* text has been refused after it.
C30_Witness ==
    /\ vehiclePlate = <<"A", "7", "A", "7", "A", "7">>
    /\ Len(plateInput) > MaxPlateLength
    /\ isUpperAlnum(toUpperCase(plateInput))
====
